---------------------------- MODULE Spec2Model ----------------------------
(***************************************************************************)
(* A model of mseedindex 2.7 (src/src/mseedindex.c, lines 1-2400).         *)
(*                                                                         *)
(* main() reads every input file record by record and groups the records  *)
(* into sections (one MSTrace with a struct sectiondetails each); after    *)
(* all files are read, SyncPostgres() and SyncSQLite() replace the rows of *)
(* each file in the index table inside one transaction per file.           *)
(*                                                                         *)
(* Time is counted in units of 30 minutes: an hour (the spacing of the     *)
(* time index) is 2 units and a day (the search window) is 48 units.       *)
(* File names are sequences of characters.  A record's raw bytes are one   *)
(* token; an MD5 state is the sequence of tokens appended to it.           *)
(***************************************************************************)
EXTENDS Integers, Sequences, FiniteSets, TLC

VARIABLES
    pc,        \* position of main(): "read", "crash", "sync", "exit"
    dom,       \* the sets the records of the input are drawn from
    filelist,  \* the struct filelink list: filename, filemodtime, scantime, mstg
    flp,       \* main()'s flp: index in filelist of the file being read
    rd,        \* main()'s locals of the read loop
    msrs,      \* history: the records ms_readmsr() returned for this file
    cfg,       \* the options: nosync, noupdate, pghost, sqlitefile
    db,        \* per backend, the committed rows of the index table
    conn,      \* per backend, the connection: open, in a transaction, its work
    sy,        \* the locals of SyncPostgres/SyncSQLite and of their FileSeries
    exitcode,  \* the exit status of the process, NotExited while it runs
    run,       \* the number of this invocation
    seen,      \* what a concurrent reader's last query returned
    prev,      \* history: the invocation before this one
    peer       \* a second invocation running at the same time, while it waits

readvars == <<rd, msrs>>
syncvars == <<cfg, db, conn, sy, exitcode, run, seen, prev>>
vars == <<pc, dom, filelist, flp, rd, msrs, cfg, db, conn, sy, exitcode, run,
          seen, prev, peer>>

-----------------------------------------------------------------------------
(* Bounds and program constants                                            *)

\* MS_ISRATETOLERABLE: rates agree when they differ by less than one part
\* in RateTolerance.
RateTolerance == 10000

\* "%.6g": rates below SixDigits are written as they are.
SixDigits == 1000000

\* Most records read from one file.
MaxRecs == 3

\* hptime_t HPTERROR, the value that stands for "no time".  As a time it is
\* 1902-01-01T00:00:00, which a record can carry.
HPTERROR == -1

\* MS_EPOCH2HPTIME (3600), one hour, in units of 30 minutes.
IndexInterval == 2

\* NULL for an index into filelist[flp].mstg.
NoTrace == 0


-----------------------------------------------------------------------------
(* Reading: the loop of main() over the records of one file                *)

\* msr->record, the reclen bytes md5_append() digests: the header fields
\* and the payload, wherever in the file the record is.
Record(msr) ==
    <<msr.id, msr.starttime, msr.endtime - msr.starttime, msr.samprate,
      msr.reclen, msr.raw>>

\* An entry put before the others of the list.
AddTimeIndexFirst(tindex, time, byteoffset) ==
    <<[time |-> time, byteoffset |-> byteoffset]>> \o tindex

\* AddTimeIndex(): the new entry goes to the end of the chain.
AddTimeIndex(tindex, time, byteoffset) ==
    Append(tindex, [time |-> time, byteoffset |-> byteoffset])

\* nextindex is moved on by one interval.
AdvanceOnce(nextindex, endtime) == nextindex + IndexInterval

\* while (nextindex < endtime) nextindex += MS_EPOCH2HPTIME (3600);
RECURSIVE AdvanceNextIndex(_, _)
AdvanceNextIndex(nextindex, endtime) ==
    IF nextindex < endtime
    THEN AdvanceNextIndex(nextindex + IndexInterval, endtime)
    ELSE nextindex

\* mst_findmatch (cmst, ...): cmst is the last trace of the group, so the
\* search returns cmst when its codes are the record's and NULL otherwise.
FindMatch(mstg, cmst, msr) ==
    IF cmst # NoTrace /\ mstg[cmst].id = msr.id THEN cmst ELSE NoTrace

\* The test of line 268, with the length of the record just read.
IsNextInFile(prevfilepos, msr) ==
    msr.filepos = prevfilepos + msr.reclen

\* Only a start before that of the last record is out of order.
EarlierThanLast(starttime, prevstarttime) == starttime < prevstarttime

\* Line 283: the test that unsets the time order indicator.
NotInTimeOrder(starttime, prevstarttime) == starttime <= prevstarttime

\* MS_ISRATETOLERABLE (A, B): fabs (1.0 - (A / B)) < 0.0001, on rates that
\* are whole numbers here.  A division by zero gives no finite value and
\* the test fails.
IsRateTolerable(a, b) ==
    /\ b # 0
    /\ (IF a > b THEN a - b ELSE b - a) * RateTolerance < b

\* mstl_addmsr() on the span list of a section: the record extends the last
\* span when it has the span's rate within the tolerance and starts where
\* the span ends (a sample period and the time tolerance are below the unit
\* of time); otherwise it starts a new span with its rate.
AddToSpans(spans, msr) ==
    IF /\ spans # <<>>
       /\ IsRateTolerable(msr.samprate, spans[Len(spans)].samprate)
       /\ msr.starttime = spans[Len(spans)].endtime
    THEN [spans EXCEPT ![Len(spans)].endtime = msr.endtime]
    ELSE Append(spans, [starttime |-> msr.starttime, endtime |-> msr.endtime,
                        samprate |-> msr.samprate])

\* Every record is added to the span list.
CoversAlways(samprate) == TRUE

\* Lines 299 and 361: a record is added to the span list if its sample
\* rate is non-zero.
Covers(samprate) == samprate # 0

\* Every record that extends a section gets an entry of the time index.
IndexedAlways(endtime, nextindex) == TRUE

\* Line 288: the record crosses over the next index time.
CrossesNextIndex(endtime, nextindex) == endtime > nextindex

\* The earliest time of a section stays that of its first record.
EarliestOfFirst(earliest, starttime) == earliest

\* Lines 277-278: the earliest time of the section with one more record.
EarliestWith(earliest, starttime) ==
    IF starttime < earliest THEN starttime ELSE earliest

\* Lines 270-309: the record extends the section of cmst.
ExtendSection(sd, msr, prevstarttime, nextindex) ==
    LET indexed == CrossesNextIndex(msr.endtime, nextindex)
    IN  [sd EXCEPT
           !.endoffset = msr.filepos + msr.reclen - 1,
           !.earliest = EarliestWith(@, msr.starttime),
           !.latest = IF msr.endtime > sd.latest THEN msr.endtime ELSE @,
           !.timeorderrecords = IF NotInTimeOrder(msr.starttime, prevstarttime)
                                THEN 0 ELSE @,
           !.tindex = IF indexed
                      THEN AddTimeIndex(@, msr.starttime, msr.filepos)
                      ELSE @,
           !.spans = IF Covers(msr.samprate) THEN AddToSpans(@, msr) ELSE @,
           !.digeststate = Append(@, Record(msr))]

\* Lines 315-374: a new MSTrace and its section details.
NewSection(msr, filemodtime) ==
    [id |-> msr.id,
     samprate |-> msr.samprate,
     startoffset |-> msr.filepos,
     endoffset |-> msr.filepos + msr.reclen - 1,
     earliest |-> msr.starttime,
     latest |-> msr.endtime,
     updated |-> filemodtime,
     timeorderrecords |-> 1,
     tindex |-> AddTimeIndex(<<>>, msr.starttime, msr.filepos),
     spans |-> IF Covers(msr.samprate) THEN AddToSpans(<<>>, msr) ELSE <<>>,
     digeststate |-> <<Record(msr)>>,
     digeststr |-> <<>>]

\* One pass of the loop body, lines 257-378, on the read state
\* st = [mstg, cmst, prevfilepos, prevstarttime, nextindex, crashed].
\* With cmst NULL the test mst == cmst holds (NULL == NULL); when the
\* offset test holds too, line 273 reads cmst->prvtptr through NULL.
ReadStep(st, msr, filemodtime) ==
    LET mst == FindMatch(st.mstg, st.cmst, msr)
    IN  IF mst = st.cmst /\ IsNextInFile(st.prevfilepos, msr)
        THEN IF st.cmst = NoTrace
             THEN [st EXCEPT !.crashed = TRUE]
             ELSE [st EXCEPT
                     !.mstg[st.cmst] =
                         ExtendSection(@, msr, st.prevstarttime, st.nextindex),
                     !.nextindex =
                         IF CrossesNextIndex(msr.endtime, @)
                         THEN AdvanceNextIndex(@, msr.endtime)
                         ELSE @,
                     !.prevfilepos = msr.filepos,
                     !.prevstarttime = msr.starttime]
        ELSE [st EXCEPT
                !.mstg = Append(@, NewSection(msr, filemodtime)),
                !.cmst = Len(st.mstg) + 1,
                !.nextindex =
                    AdvanceNextIndex(msr.starttime + IndexInterval, msr.endtime),
                !.prevfilepos = msr.filepos,
                !.prevstarttime = msr.starttime]

\* Lines 247-251: the locals as a file is opened.  nextindex keeps the
\* value the previous file left.
OpenFile(nextindex) ==
    [mstg |-> <<>>, cmst |-> NoTrace, prevfilepos |-> 0,
     prevstarttime |-> HPTERROR, nextindex |-> nextindex, crashed |-> FALSE]

\* ms_readmsr() until MS_ENDOFFILE over a file that holds the records of
\* content: the read state after the last record.
RECURSIVE ReadAll(_, _, _)
ReadAll(st, content, filemodtime) ==
    IF content = <<>> \/ st.crashed THEN st
    ELSE ReadAll(ReadStep(st, Head(content), filemodtime), Tail(content),
                 filemodtime)

ReadFile(content, filemodtime) ==
    ReadAll(OpenFile(HPTERROR), content, filemodtime).mstg

-----------------------------------------------------------------------------
(* Synchronising: SyncPostgres(), SyncSQLite() and their FileSeries        *)

\* interval '1 day' and datetime(..., '+1 day'), in units of 30 minutes.
DayLen == 48

\* exitcode while the process runs.
NotExited == -1

\* Invocations of the program in one behaviour.
MaxRuns == 2

Backends == {"pg", "sqlite"}

Digits == {"0", "1", "2", "3", "4", "5", "6", "7", "8", "9"}

\* strrchr (flp->filename, '#'): the place of the last '#', 0 for NULL.
LastHash(filename) ==
    LET is == { i \in 1..Len(filename) : filename[i] = "#" }
    IN  IF is = {} THEN 0 ELSE CHOOSE i \in is : \A j \in is : j <= i

\* Whatever follows the '#' is taken for a version.
VersionAssumed(filename) == TRUE

\* strtod (++vp, &ep) parsed something: !(!version && vp == ep).
VersionParses(filename) ==
    /\ LastHash(filename) < Len(filename)
    /\ filename[LastHash(filename) + 1] \in Digits

\* baselength = vp - flp->filename, 0 when the name holds no '#'.
BaseLength(filename) ==
    IF LastHash(filename) = 0 THEN 0 ELSE LastHash(filename) - 1

\* A finish that appends its padding to the state the caller passed.
Md5FinishInPlace(digeststate) == Append(digeststate, "pad")

\* md5_finish(): the digest of the bytes accumulated so far; the accumulator
\* keeps them.  Different bytes have different digests.
Md5Finish(digeststate) == digeststate

\* Lines 644-647: md5_finish() on the section's state, then the hex string.
FinishDigest(sd) ==
    [sd EXCEPT !.digeststate = Md5Finish(@),
               !.digeststr = Md5Finish(sd.digeststate)]

\* Lines 639-657 (1267-1285), the digest strings of all sections.
FinishDigests(mstg) == [k \in 1..Len(mstg) |-> FinishDigest(mstg[k])]

\* Lines 649-651: the earliest time of the file after one more section.
\* HPTERROR stands for "no time yet".
Earlier(fileearliest, earliest) ==
    IF fileearliest = HPTERROR \/ fileearliest > earliest
    THEN earliest ELSE fileearliest

\* Lines 652-653: the latest time of the file after one more section.
Later(filelatest, latest) ==
    IF filelatest = HPTERROR \/ filelatest < latest
    THEN latest ELSE filelatest

\* Lines 636-657: the extents of the file, from HPTERROR on over the
\* sections in the order of the list.
RECURSIVE FileEarliestFrom(_, _)
FileEarliestFrom(fileearliest, mstg) ==
    IF mstg = <<>> THEN fileearliest
    ELSE FileEarliestFrom(Earlier(fileearliest, Head(mstg).earliest),
                          Tail(mstg))

RECURSIVE FileLatestFrom(_, _)
FileLatestFrom(filelatest, mstg) ==
    IF mstg = <<>> THEN filelatest
    ELSE FileLatestFrom(Later(filelatest, Head(mstg).latest), Tail(mstg))

FileEarliest(mstg) == FileEarliestFrom(HPTERROR, mstg)

FileLatest(mstg) == FileLatestFrom(HPTERROR, mstg)

\* Every file is taken to have time extents.
ExtentsAssumed(fileearliest, filelatest) == FALSE

\* Lines 659 and 1287: no time extents were found for the file.
NoExtents(fileearliest, filelatest) ==
    fileearliest = HPTERROR \/ filelatest = HPTERROR

\* ms_hptime2isotimestr(): 'YYYY-MM-DD' 'T' 'HH:MM:SS.ssssss', as the
\* date, the separator and the time of day.  The separators are ordered as
\* their characters: ' ' (0) before 'T' (1).
IsoTimeStr(t) == <<t \div DayLen, 1, t % DayLen>>

\* SQLite's datetime(): 'YYYY-MM-DD' ' ' 'HH:MM:SS'.
SqliteDatetime(t) == <<t \div DayLen, 0, t % DayLen>>

\* The order of two such texts, character by character.
TextLE(a, b) ==
    \/ a[1] < b[1]
    \/ a[1] = b[1] /\ a[2] < b[2]
    \/ a[1] = b[1] /\ a[2] = b[2] /\ a[3] <= b[3]

\* starttime and endtime: to_timestamp(%s) in Postgres, text in SQLite.
TimeCol(be, t) == IF be = "pg" THEN t ELSE IsoTimeStr(t)

IsPrefix(p, s) == Len(p) <= Len(s) /\ SubSeq(s, 1, Len(p)) = p

\* filewhere before it is built (NULL).
NoWhere == [like |-> FALSE, name |-> <<>>, upper |-> <<>>, lower |-> <<>>]

\* Lines 673-688 (1309-1320): the WHERE clause of the search and of the
\* DELETE.  With a version the name is matched by LIKE '<base>%'.
FileWhere(be, filename, baselength, fileearliest, filelatest) ==
    [like |-> baselength > 0,
     name |-> IF baselength > 0 THEN SubSeq(filename, 1, baselength)
              ELSE filename,
     upper |-> IF be = "pg" THEN filelatest + DayLen
               ELSE SqliteDatetime(filelatest + DayLen),
     lower |-> IF be = "pg" THEN fileearliest - DayLen
               ELSE SqliteDatetime(fileearliest - DayLen)]

\* The database's evaluation of that clause on a row: timestamps compare
\* as instants in Postgres, TEXT columns compare as text in SQLite.
WhereMatches(be, w, row) ==
    /\ IF w.like THEN IsPrefix(w.name, row.filename)
       ELSE row.filename = w.name
    /\ IF be = "pg"
       THEN row.starttime <= w.upper /\ row.endtime >= w.lower
       ELSE TextLE(row.starttime, w.upper) /\ TextLE(w.lower, row.endtime)

SelectNothing(table, be, w) == <<>>

DeleteNothing(table, be, w) == table

SelectRows(table, be, w) ==
    SelectSeq(table, LAMBDA row : WhereMatches(be, w, row))

DeleteRows(table, be, w) ==
    SelectSeq(table, LAMBDA row : ~WhereMatches(be, w, row))

\* Lines 733-738 (1362-1367): hash and codes of a row are the section's.
RowMatchesSection(sd, row) == sd.digeststr = row.hash /\ sd.id = row.id

\* The value read back from the updated column: strtoll() of the epoch in
\* Postgres; in SQLite the time string parsed and rounded,
\* (double)MS_HPTIME2EPOCH (hpupdated) + 0.5 cut to a time_t.
UpdatedOfRow(be, row) ==
    IF be = "pg" THEN row.updated ELSE (2 * row.updated + 1) \div 2

\* No section takes a value of the rows.
RetainNothing(mstg, be, rows) == mstg

\* For every row of the result only the first section the row matches
\* takes the row's updated.
RECURSIVE RetainFirstMatch(_, _, _)
RetainFirstMatch(mstg, be, rows) ==
    IF rows = <<>> THEN mstg
    ELSE RetainFirstMatch(
             [k \in 1..Len(mstg) |->
                 IF /\ RowMatchesSection(mstg[k], Head(rows))
                    /\ \A j \in 1..(k - 1) :
                           ~RowMatchesSection(mstg[j], Head(rows))
                 THEN [mstg[k] EXCEPT !.updated = UpdatedOfRow(be, Head(rows))]
                 ELSE mstg[k]],
             be, Tail(rows))

\* Lines 721-747 (1347-1385): for every row of the result, in the order of the
\* result, every section the row matches takes the row's updated.
RECURSIVE RetainUpdated(_, _, _)
RetainUpdated(mstg, be, rows) ==
    IF rows = <<>> THEN mstg
    ELSE RetainUpdated(
             [k \in 1..Len(mstg) |->
                 IF RowMatchesSection(mstg[k], Head(rows))
                 THEN [mstg[k] EXCEPT !.updated = UpdatedOfRow(be, Head(rows))]
                 ELSE mstg[k]],
             be, Tail(rows))

\* The index always identifies the latest data.
LatestSet(timeorderrecords) == 1

\* Lines 817-820: the value of the 'latest' pair, printed with "%d".
LatestFlag(timeorderrecords) == timeorderrecords

\* A time index written whatever its first entry is.
TimeIndexAlways(sd) ==
    [null |-> FALSE, index |-> sd.tindex,
     latest |-> LatestFlag(sd.timeorderrecords)]

\* Lines 798-842: the time index is written when its first entry is the
\* earliest time of the section, and is NULL otherwise.
TimeIndexCol(sd) ==
    IF sd.tindex # <<>> /\ sd.tindex[1].time = sd.earliest
    THEN [null |-> FALSE, index |-> sd.tindex,
          latest |-> LatestFlag(sd.timeorderrecords)]
    ELSE [null |-> TRUE, index |-> <<>>, latest |-> 0]

\* printf ("%.6g"): a rate written with six significant digits.
RECURSIVE RateStr(_)
RateStr(samprate) ==
    IF samprate < SixDigits THEN samprate
    ELSE 10 * RateStr((samprate + 5) \div 10)

\* Lines 862-882 and 912-924: the spans of the section as an array of
\* ranges of epoch times, NULL without a span.
TimeSpansCol(be, sd) ==
    [null |-> sd.spans = <<>>,
     spans |-> [i \in 1..Len(sd.spans) |->
                  <<sd.spans[i].starttime, sd.spans[i].endtime>>]]

\* Lines 876-879: the spans whose rate is not within the tolerance of the
\* rate of the trace, which is the rate of its first record.
RateMismatches(sd) ==
    Cardinality({ i \in 1..Len(sd.spans) :
                    ~IsRateTolerable(sd.spans[i].samprate, sd.samprate) })

\* The rates of the spans are written for every section that has spans.
TimeRatesAlways(sd) ==
    [null |-> sd.spans = <<>>,
     rates |-> [i \in 1..Len(sd.spans) |-> RateStr(sd.spans[i].samprate)]]

\* Lines 886-904 and 926-938: the rates of all spans when a span has a
\* rate mismatch, NULL otherwise.
TimeRatesCol(sd) ==
    IF RateMismatches(sd) > 0
    THEN [null |-> FALSE,
          rates |-> [i \in 1..Len(sd.spans) |-> RateStr(sd.spans[i].samprate)]]
    ELSE [null |-> TRUE, rates |-> <<>>]

\* Lines 601-603: timeindexstr, timespansstr and timeratesstr are NULL.
NullStrings ==
    [timeindex |-> [null |-> TRUE, index |-> <<>>, latest |-> 0],
     timespans |-> [null |-> TRUE, spans |-> <<>>],
     timerates |-> [null |-> TRUE, rates |-> <<>>]]

\* Lines 794-938: the three strings after the section is serialized.  A
\* string that is not built for the section is left as it was.
Serialized(be, sd, strs) ==
    [timeindex |-> IF TimeIndexCol(sd).null THEN strs.timeindex
                   ELSE TimeIndexCol(sd),
     timespans |-> IF TimeSpansCol(be, sd).null THEN strs.timespans
                   ELSE TimeSpansCol(be, sd),
     timerates |-> IF TimeRatesCol(sd).null THEN strs.timerates
                   ELSE TimeRatesCol(sd)]

\* The strings are left for the next section.
KeptStrings(strs) == strs

\* Lines 989-1003: the strings are freed and set to NULL after the row.
FreedStrings(strs) == NullStrings

\* The distance from the first byte of the section to its last.
ByteSpan(sd) == sd.endoffset - sd.startoffset

\* Lines 789 and 1437: bytecount, the number of bytes of the section.
ByteCount(sd) == sd.endoffset - sd.startoffset + 1

\* Lines 942-965 (1599-1622): the row inserted for a section.
MakeRow(be, file, sd, strs) ==
    [id |-> sd.id,
     starttime |-> TimeCol(be, sd.earliest),
     endtime |-> TimeCol(be, sd.latest),
     samplerate |-> RateStr(sd.samprate),
     filename |-> file.filename,
     byteoffset |-> sd.startoffset,
     bytes |-> ByteCount(sd),
     hash |-> sd.digeststr,
     timeindex |-> Serialized(be, sd, strs).timeindex,
     timespans |-> Serialized(be, sd, strs).timespans,
     timerates |-> Serialized(be, sd, strs).timerates,
     filemodtime |-> file.filemodtime,
     updated |-> sd.updated,
     scanned |-> file.scantime]

\* A connection that is not open.
ClosedConn == [open |-> FALSE, intx |-> FALSE, work |-> <<>>]

\* A BEGIN that opens no transaction.
BeginNoTransaction(c, table) == c

\* BEGIN TRANSACTION: from here the statements of the connection work on
\* rows of their own until COMMIT.
BeginTransaction(c, table) == [c EXCEPT !.intx = TRUE, !.work = table]

\* The table as the statements of backend be's connection see it.
View(be) == IF conn[be].intx THEN conn[be].work ELSE db[be]

\* The locals of the synchronisation before it starts.
IdleSy ==
    [be |-> "none", setup |-> 0, session |-> {}, baselength |-> 0,
     fileearliest |-> HPTERROR, filelatest |-> HPTERROR,
     filewhere |-> NoWhere, matchcount |-> 0, mst |-> 1,
     old |-> <<>>, selected |-> <<>>, strs |-> NullStrings, fail |-> "none",
     committed |-> FALSE, done |-> {}]

NotSeen == [be |-> "none", at |-> "none", mst |-> 0, rows |-> <<>>]

\* No second invocation runs.
NoPeer ==
    [pc |-> "none", filelist |-> <<>>, flp |-> 1,
     conn |-> [b \in Backends |-> ClosedConn], sy |-> IdleSy,
     exitcode |-> NotExited]

NoPrev == [run |-> 0, file |-> <<>>, exitcode |-> NotExited, done |-> {},
           db |-> [b \in Backends |-> <<>>]]

\* static unsigned long int sqlitebusyto, in milliseconds, when the option
\* -sqlitebusyto is not given.
DefaultBusyTimeout == 10000

\* A session of SQLite set up without the PRAGMA case_sensitive_like.
SetupWithoutLike(be) ==
    IF be = "pg" THEN <<"timezone">>
    ELSE <<"busy_timeout", "create_table", "nslcse_idx", "filename_idx",
           "updated_idx">>

\* The statements that set a session up, after the connection is made:
\* lines 540-547, and lines 1084-1174.
SetupSteps(be) ==
    IF be = "pg" THEN <<"timezone">>
    ELSE <<"busy_timeout", "case_sensitive_like", "create_table",
           "nslcse_idx", "filename_idx", "updated_idx">>

\* Line 1084: the busy timeout is set unless the option gave 0.
SessionSteps(be, c) ==
    IF be = "sqlite" /\ c.sqlitebusyto = 0 THEN Tail(SetupSteps(be))
    ELSE SetupSteps(be)

\* The skipnotdata argument main() gives ms_readmsr(), line 255.
skipnotdata == 1

\* The records ms_readmsr() can return next: with skipnotdata, skip bytes
\* of non-data are passed over, then a record of reclen bytes follows.
\* msr_endtime() is the start time for a record without sample rate.
NextRecords(streampos, d) ==
    UNION { { [filepos |-> streampos + skip, reclen |-> reclen, id |-> id,
               starttime |-> st, endtime |-> st + dur, samprate |-> rate,
               raw |-> raw] :
                skip \in IF skipnotdata = 1 THEN d.skips ELSE {0},
                reclen \in d.reclens, id \in d.ids,
                st \in d.starts, raw \in d.raws,
                dur \in IF rate = 0 THEN {0} ELSE d.durs } :
            rate \in d.rates }

\* The model's input domains: one varies the layout of the records in the
\* file, the other their times.
ByteDomain ==
    [skips |-> {0, 2, 4}, reclens |-> {2, 4}, ids |-> {"NA", "NB"},
     starts |-> {100}, durs |-> {1}, rates |-> {20}, raws |-> {"x"}]
TimeDomain ==
    [skips |-> {0}, reclens |-> {2}, ids |-> {"NA"},
     starts |-> {100, 101, 103, 106}, durs |-> {0, 1, 4}, rates |-> {20},
     raws |-> {"x"}]
FileModTimes == {7, 8}
FileNames == { <<"a">>, <<"a", "#", "1">> }

\* The state as main() opens its only input file.
InitRead ==
    /\ pc = "read"
    /\ dom \in {ByteDomain, TimeDomain}
    /\ \E name \in FileNames, mtime \in FileModTimes :
         filelist = << [filename |-> name, filemodtime |-> mtime,
                        scantime |-> mtime + 1, mstg |-> <<>>] >>
    /\ flp = 1
    /\ rd = [cmst |-> NoTrace, prevfilepos |-> 0, prevstarttime |-> HPTERROR,
             nextindex |-> HPTERROR, streampos |-> 0]
    /\ msrs = <<>>
    /\ cfg = [nosync |-> TRUE, noupdate |-> FALSE, pghost |-> FALSE,
              sqlitefile |-> FALSE, sqlitebusyto |-> DefaultBusyTimeout]
    /\ db = [b \in Backends |-> <<>>]
    /\ conn = [b \in Backends |-> ClosedConn]
    /\ sy = IdleSy
    /\ exitcode = NotExited
    /\ run = 1
    /\ seen = NotSeen
    /\ prev = NoPrev
    /\ peer = NoPeer

ReadState ==
    [mstg |-> filelist[flp].mstg, cmst |-> rd.cmst,
     prevfilepos |-> rd.prevfilepos, prevstarttime |-> rd.prevstarttime,
     nextindex |-> rd.nextindex, crashed |-> FALSE]

\* ms_readmsr() returned MS_NOERROR and the loop body ran.
ReadRecord ==
    /\ pc = "read"
    /\ Len(msrs) < MaxRecs
    /\ \E msr \in NextRecords(rd.streampos, dom) :
         LET st == ReadStep(ReadState, msr, filelist[flp].filemodtime)
         IN  /\ pc' = IF st.crashed THEN "crash" ELSE "read"
             /\ filelist' = [filelist EXCEPT ![flp].mstg = st.mstg]
             /\ rd' = [cmst |-> st.cmst, prevfilepos |-> st.prevfilepos,
                       prevstarttime |-> st.prevstarttime,
                       nextindex |-> st.nextindex,
                       streampos |-> msr.filepos + msr.reclen]
             /\ msrs' = Append(msrs,
                          [msr |-> msr,
                           extended |-> /\ ~st.crashed
                                        /\ Len(st.mstg) = Len(ReadState.mstg),
                           section |-> IF st.crashed THEN NoTrace ELSE st.cmst])
    /\ UNCHANGED <<dom, peer, flp, syncvars>>

\* The reading loop ends with the first file.
NoMoreFiles(list, p) == FALSE

\* Line 399 and the loop condition, line 230: a file follows in the list.
MoreFiles(list, p) == p < Len(list)

\* ms_readmsr() returned MS_ENDOFFILE, lines 381-399: the next file is
\* read from its start, with the nextindex the last file left; after the
\* last file main() comes to the synchronisation.
EndOfFile ==
    /\ pc = "read"
    /\ IF MoreFiles(filelist, flp)
       THEN /\ flp' = flp + 1
            /\ rd' = [cmst |-> NoTrace, prevfilepos |-> 0,
                      prevstarttime |-> HPTERROR, nextindex |-> rd.nextindex,
                      streampos |-> 0]
            /\ msrs' = <<>>
            /\ pc' = "read"
       ELSE /\ pc' = "sync"
            /\ UNCHANGED <<flp, rd, msrs>>
    /\ UNCHANGED <<dom, peer, filelist, syncvars>>

\* ms_readmsr() returned an error, lines 381-387: the file cannot be read
\* further (no record where the file ends, a record that cannot be
\* unpacked) and main() exits with status 1.
ReadError ==
    /\ pc = "read"
    /\ pc' = "exit"
    /\ exitcode' = 1
    /\ UNCHANGED <<dom, peer, filelist, flp, rd, msrs, cfg, db, conn, sy, run,
                   seen, prev>>

NextRead == ReadRecord \/ EndOfFile \/ ReadError

SpecRead == InitRead /\ [][NextRead]_vars

-----------------------------------------------------------------------------
-----------------------------------------------------------------------------
(* The steps of a synchronisation, one action per database statement       *)

\* A failure return: the connection is closed when closes holds (the
\* caller's PQfinish() or sqlite3_close(), which rolls the open transaction
\* back) and main() exits with status 1.  A connection the program did not
\* close ends with the process, and its open transaction with it.
Failed(closes, where) ==
    /\ pc' = "exit"
    /\ exitcode' = 1
    /\ conn' = [conn EXCEPT ![sy.be] =
                   IF closes THEN ClosedConn
                   ELSE [@ EXCEPT !.intx = FALSE, !.work = <<>>]]
    /\ sy' = [sy EXCEPT !.fail = where]

\* Only the lack of a database keeps the synchronisation from running.
NoStoreNamed(c) == ~c.pghost /\ ~c.sqlitefile

\* Lines 403, 406, 413: nothing is synchronised with -ns, or when neither
\* a Postgres host nor a SQLite file is named.
NothingToSync(c) == c.nosync \/ (~c.pghost /\ ~c.sqlitefile)

\* main(), lines 402-418: which synchronisation runs first, if any.
StartSync ==
    /\ pc = "sync"
    /\ IF NothingToSync(cfg)
       THEN /\ pc' = "exit"
            /\ exitcode' = 0
            /\ sy' = sy
       ELSE /\ pc' = "connect"
            /\ exitcode' = exitcode
            /\ sy' = [IdleSy EXCEPT !.be = IF cfg.pghost THEN "pg" ELSE "sqlite"]
    /\ UNCHANGED <<dom, peer, filelist, flp, rd, msrs, cfg, db, conn, run,
                   seen, prev>>

\* PQconnectdbParams() / sqlite3_open(): lines 508-537 and 1071-1082.  A
\* failed connection is closed before the return.
Connect ==
    /\ pc = "connect"
    /\ \/ /\ pc' = "setup"
          /\ conn' = [conn EXCEPT ![sy.be].open = TRUE]
          /\ sy' = [sy EXCEPT !.setup = 0]
          /\ exitcode' = exitcode
       \/ Failed(TRUE, "connect")
    /\ UNCHANGED <<dom, peer, filelist, flp, rd, msrs, cfg, db, run, seen,
                   prev>>

\* The next statement of the session's setup.  Of the failures only that of
\* sqlite3_busy_timeout() closes the connection.
Setup ==
    /\ pc = "setup"
    /\ LET step == SessionSteps(sy.be, cfg)[sy.setup + 1]
       IN  \/ /\ sy' = [sy EXCEPT !.setup = @ + 1,
                                   !.session = @ \cup {step}]
              /\ pc' = IF sy.setup + 1 = Len(SessionSteps(sy.be, cfg))
                       THEN "file" ELSE "setup"
              /\ UNCHANGED <<conn, exitcode>>
           \/ Failed(step = "busy_timeout", step)
    /\ flp' = 1
    /\ UNCHANGED <<dom, peer, filelist, rd, msrs, cfg, db, run, seen, prev>>

\* The rows of the file are searched for whatever the options are.
SearchesAlways(noupdate) == TRUE

\* Line 668: the search, and with it the DELETE, is left out with -noup.
Searches(noupdate) == ~noupdate

\* Sync*FileSeries() up to the search: the version of the name, the
\* digests and extents of the sections, the WHERE clause (lines 615-688).
FileStart ==
    /\ pc = "file"
    /\ LET file == filelist[flp]
           mstg == FinishDigests(file.mstg)
           base == BaseLength(file.filename)
       IN  IF LastHash(file.filename) # 0 /\ ~VersionParses(file.filename)
           THEN Failed(TRUE, "version") /\ filelist' = filelist
           ELSE /\ filelist' = [filelist EXCEPT ![flp].mstg = mstg]
                /\ IF NoExtents(FileEarliest(mstg), FileLatest(mstg))
                   THEN Failed(TRUE, "extents")
                   ELSE /\ sy' = [sy EXCEPT
                                    !.baselength = base,
                                    !.fileearliest = FileEarliest(mstg),
                                    !.filelatest = FileLatest(mstg),
                                    !.filewhere =
                                        IF ~Searches(cfg.noupdate) THEN NoWhere
                                        ELSE FileWhere(sy.be, file.filename, base,
                                                       FileEarliest(mstg),
                                                       FileLatest(mstg)),
                                    !.matchcount = 0, !.mst = 1,
                                    !.old = db[sy.be], !.selected = <<>>,
                                    !.strs = NullStrings,
                                    !.committed = FALSE]
                        /\ pc' = IF Searches(cfg.noupdate) THEN "select"
                                 ELSE "begin"
                        /\ UNCHANGED <<conn, exitcode>>
    /\ seen' = NotSeen
    /\ UNCHANGED <<dom, peer, flp, rd, msrs, cfg, db, run, prev>>

\* All orders of the rows of a result.
Orders(rows) ==
    { [i \in 1..Len(rows) |-> rows[f[i]]] :
        f \in { g \in [1..Len(rows) -> 1..Len(rows)] :
                  \A i, j \in 1..Len(rows) : i # j => g[i] # g[j] } }

\* The search for the rows of the file, before the transaction begins, and
\* the retention of their updated values (lines 690-751).  The statement
\* has no ORDER BY: the rows come in an order the database chooses.
Select ==
    /\ pc = "select"
    /\ \/ \E rows \in Orders(SelectRows(View(sy.be), sy.be, sy.filewhere)) :
            /\ sy' = [sy EXCEPT !.matchcount = Len(rows), !.selected = rows]
            /\ filelist' = [filelist EXCEPT
                              ![flp].mstg = RetainUpdated(@, sy.be, rows)]
            /\ pc' = "begin"
            /\ UNCHANGED <<conn, exitcode>>
       \/ Failed(TRUE, "select") /\ filelist' = filelist
    /\ UNCHANGED <<dom, peer, flp, rd, msrs, cfg, db, run, seen, prev>>

\* BEGIN TRANSACTION, lines 753-763.
Begin ==
    /\ pc = "begin"
    /\ \/ /\ conn' = [conn EXCEPT ![sy.be] = BeginTransaction(@, db[sy.be])]
          /\ pc' = IF sy.matchcount > 0 THEN "delete" ELSE "insert"
          /\ UNCHANGED <<sy, exitcode>>
       \/ Failed(TRUE, "begin")
    /\ UNCHANGED <<dom, peer, filelist, flp, rd, msrs, cfg, db, run, seen,
                   prev>>

\* A statement whose change is stored at once, transaction or not.
WrittenThrough(be, rows) ==
    /\ conn' = conn
    /\ db' = [db EXCEPT ![be] = rows]

\* A statement of the connection left the table as rows: inside a
\* transaction the change stays with the connection, outside it is stored.
Written(be, rows) ==
    /\ conn' = IF conn[be].intx THEN [conn EXCEPT ![be].work = rows] ELSE conn
    /\ db' = IF conn[be].intx THEN db ELSE [db EXCEPT ![be] = rows]

\* DELETE FROM table WHERE filewhere, run when the search matched rows
\* (lines 765-778).
Delete ==
    /\ pc = "delete"
    /\ \/ /\ Written(sy.be, DeleteRows(View(sy.be), sy.be, sy.filewhere))
          /\ pc' = "insert"
          /\ UNCHANGED <<sy, exitcode>>
       \/ Failed(TRUE, "delete") /\ db' = db
    /\ UNCHANGED <<dom, peer, filelist, flp, rd, msrs, cfg, run, seen, prev>>

\* One turn of the loop over the sections (lines 780-1006): the strings of
\* the section are built and its row is inserted.
Insert ==
    /\ pc = "insert"
    /\ \/ /\ Written(sy.be, Append(View(sy.be),
                       MakeRow(sy.be, filelist[flp],
                               filelist[flp].mstg[sy.mst], sy.strs)))
          /\ sy' = [sy EXCEPT
                       !.mst = @ + 1,
                       !.strs = FreedStrings(
                                   Serialized(sy.be, filelist[flp].mstg[sy.mst],
                                              @))]
          /\ pc' = IF sy.mst = Len(filelist[flp].mstg) THEN "commit" ELSE "insert"
          /\ exitcode' = exitcode
       \/ \E where \in {"serialize", "insert"} : Failed(TRUE, where) /\ db' = db
    /\ UNCHANGED <<dom, peer, filelist, flp, rd, msrs, cfg, run, seen, prev>>

\* COMMIT, lines 1008-1015 and 1663-1674.  SyncPostgresFileSeries() does
\* not look at the result; SyncSQLiteFileSeries() returns -1 on a failure.
Commit ==
    /\ pc = "commit"
    /\ \/ /\ db' = [db EXCEPT ![sy.be] = conn[sy.be].work]
          /\ conn' = [conn EXCEPT ![sy.be].intx = FALSE, ![sy.be].work = <<>>]
          /\ sy' = [sy EXCEPT !.committed = TRUE, !.done = @ \cup {sy.be}]
          /\ pc' = "next"
          /\ exitcode' = exitcode
       \/ /\ sy.be = "pg"
          /\ conn' = [conn EXCEPT ![sy.be].intx = FALSE, ![sy.be].work = <<>>]
          /\ sy' = [sy EXCEPT !.fail = "commit"]
          /\ pc' = "next"
          /\ UNCHANGED <<db, exitcode>>
       \/ /\ sy.be = "sqlite"
          /\ Failed(TRUE, "commit")
          /\ db' = db
    /\ UNCHANGED <<dom, peer, filelist, flp, rd, msrs, cfg, run, seen, prev>>

\* The file is done (lines 564-582, 1176-1200): the next file of the list,
\* or the connection is closed and main() goes on to the other database or
\* to its end.
NextFile ==
    /\ pc = "next"
    /\ IF flp < Len(filelist)
       THEN /\ flp' = flp + 1
            /\ pc' = "file"
            /\ UNCHANGED <<conn, sy, exitcode>>
       ELSE /\ flp' = flp
            /\ conn' = [conn EXCEPT ![sy.be] = ClosedConn]
            /\ IF sy.be = "pg" /\ cfg.sqlitefile
               THEN /\ pc' = "connect"
                    /\ sy' = [IdleSy EXCEPT !.be = "sqlite", !.done = sy.done]
                    /\ exitcode' = exitcode
               ELSE /\ pc' = "exit"
                    /\ sy' = sy
                    /\ exitcode' = 0
    /\ UNCHANGED <<dom, peer, filelist, rd, msrs, cfg, db, run, seen, prev>>

\* Another client of the database reads the table with one query.
Reader ==
    /\ pc \in {"begin", "delete", "insert", "commit", "next"}
    /\ seen = NotSeen
    /\ seen' = [be |-> sy.be, at |-> pc, mst |-> sy.mst, rows |-> db[sy.be]]
    /\ UNCHANGED <<pc, dom, peer, filelist, flp, rd, msrs, cfg, db, conn, sy,
                   exitcode, run, prev>>

-----------------------------------------------------------------------------
(* Files, stores and invocations the synchronisation is checked on         *)

\* A record of 2 bytes at 20 samples per second, as ms_readmsr() returns it.
Rec(filepos, id, starttime, dur, raw) ==
    [filepos |-> filepos, reclen |-> 2, id |-> id, starttime |-> starttime,
     endtime |-> starttime + dur, samprate |-> 20, raw |-> raw]

\* A record of 2 bytes at another sample rate.
RecRate(filepos, id, starttime, dur, raw, samprate) ==
    [Rec(filepos, id, starttime, dur, raw) EXCEPT !.samprate = samprate]

\* Contents of files: the records in them.  KAfter begins less than a day
\* after KMain ends but on the next date, KBefore ends more than a day
\* before KMain begins but on the date before it, KFar is far from both.
KMain == << Rec(0, "NA", 100, 1, "x") >>
KChanged == << Rec(0, "NA", 100, 1, "y") >>
KTwo == << Rec(0, "NA", 100, 1, "x"), Rec(2, "NB", 100, 1, "x") >>
KAfter == << Rec(0, "NA", 145, 1, "x") >>
KBefore == << Rec(0, "NA", 49, 1, "x") >>
KFar == << Rec(0, "NA", 300, 1, "x") >>
KEarlier == << Rec(0, "NA", 100, 1, "x"), Rec(2, "NA", 99, 1, "x") >>
KLong ==
    << Rec(0, "NA", 100, 1, "x"), Rec(2, "NA", 101, 3, "x"),
       Rec(4, "NA", 101, 1, "x") >>
KSpread ==
    << Rec(0, "NA", 103, 1, "x"), Rec(2, "NA", 100, 4, "x"),
       Rec(4, "NB", 101, 1, "x") >>
KRates ==
    << RecRate(0, "NA", 100, 1, "x", 2000001),
       RecRate(2, "NA", 101, 1, "x", 2100000), Rec(4, "NB", 100, 1, "x") >>
KZeroRate == << Rec(0, "NA", 100, 1, "x"), RecRate(2, "NA", 101, 0, "x", 0) >>
KZeroFirst == << RecRate(0, "NA", 100, 0, "x", 0), Rec(2, "NA", 101, 1, "x") >>
KZeroOnly ==
    << RecRate(0, "NA", 100, 0, "x", 0), RecRate(2, "NA", 103, 0, "x", 0) >>
KTwin == << Rec(0, "NA", 100, 1, "x"), Rec(4, "NA", 100, 1, "x") >>
KSentinel == << Rec(0, "NA", HPTERROR, 1, "x"), Rec(2, "NB", 100, 1, "x") >>

\* A file on disk, and the entry main() makes for it while reading it.
File(filename, content, filemodtime) ==
    [filename |-> filename, content |-> content, filemodtime |-> filemodtime]

Scanned(file, scantime) ==
    [filename |-> file.filename, content |-> file.content,
     filemodtime |-> file.filemodtime, scantime |-> scantime,
     mstg |-> ReadFile(file.content, file.filemodtime)]

\* The table after a synchronisation of one file that met no failure, the
\* steps FileStart to Commit in one.
Reconcile(table, be, file, noupdate) ==
    LET mstg1 == FinishDigests(file.mstg)
        w == FileWhere(be, file.filename, BaseLength(file.filename),
                       FileEarliest(mstg1), FileLatest(mstg1))
        rows == IF noupdate THEN <<>> ELSE SelectRows(table, be, w)
        mstg2 == RetainUpdated(mstg1, be, rows)
        kept == IF Len(rows) > 0 THEN DeleteRows(table, be, w) ELSE table
    IN  kept \o [k \in 1..Len(mstg2) |->
                    MakeRow(be, file, mstg2[k], NullStrings)]

\* The table earlier invocations left: scans is the sequence of their
\* files, each with the -noup option or without it.
RECURSIVE PriorTable(_, _, _)
PriorTable(be, scans, table) ==
    IF scans = <<>> THEN table
    ELSE PriorTable(be, Tail(scans),
             Reconcile(table, be, Scanned(Head(scans).file, Len(scans)),
                       Head(scans).noupdate))

Scan(filename, content, filemodtime) ==
    [file |-> File(filename, content, filemodtime), noupdate |-> FALSE]

ScanNoUp(filename, content, filemodtime) ==
    [file |-> File(filename, content, filemodtime), noupdate |-> TRUE]

NameA == <<"a">>
NameA1 == <<"a", "#", "1">>
NameA2 == <<"a", "#", "2">>
NameAb == <<"a", "b">>
NameAx == <<"a", "#", "x">>

Cfg(noupdate, pghost, sqlitefile) ==
    [nosync |-> FALSE, noupdate |-> noupdate, pghost |-> pghost,
     sqlitefile |-> sqlitefile, sqlitebusyto |-> DefaultBusyTimeout]

UpdateCfgs == { Cfg(FALSE, TRUE, FALSE), Cfg(FALSE, FALSE, TRUE),
                Cfg(FALSE, TRUE, TRUE) }

\* A file scanned again and again, touched or changed in between, against
\* stores that hold rows of earlier states of the file.
RescanScenario ==
    [cfgs |-> UpdateCfgs \cup { Cfg(TRUE, TRUE, FALSE),
                                [Cfg(FALSE, TRUE, FALSE) EXCEPT
                                   !.nosync = TRUE] },
     files |-> { File(NameA, KMain, 20), File(NameA, KTwo, 20),
                 File(NameA, KTwin, 20) },
     again |-> { File(NameA, KMain, 20), File(NameA, KTwo, 20),
                 File(NameA, KMain, 30), File(NameA, KChanged, 30) },
     priors |-> { <<>>,
                  << Scan(NameA, KMain, 10) >>,
                  << Scan(NameA, KFar, 10) >>,
                  << ScanNoUp(NameA, KMain, 5), ScanNoUp(NameA, KMain, 10) >> }]

\* A new version of a file, against stores that hold rows of an earlier
\* version and of files with other names.
VersionScenario ==
    [cfgs |-> { Cfg(FALSE, TRUE, FALSE), Cfg(FALSE, FALSE, TRUE) },
     files |-> { File(NameA2, KMain, 20), File(NameAx, KMain, 20) },
     again |-> { File(NameA2, KMain, 20) },
     priors |-> { << Scan(NameA1, KMain, 10) >>,
                  << Scan(NameA1, KAfter, 10) >>,
                  << Scan(NameA1, KBefore, 10) >>,
                  << Scan(NameA1, KFar, 10), Scan(NameA1, KMain, 10) >>,
                  << Scan(NameAb, KMain, 10) >>,
                  << Scan(NameA, KMain, 10), Scan(NameA2, KTwo, 10) >> }]

\* Files whose earliest data is or is not first, with and without -noup.
IndexScenario ==
    [cfgs |-> UpdateCfgs \cup { Cfg(TRUE, TRUE, FALSE), Cfg(TRUE, FALSE, TRUE),
                                Cfg(TRUE, TRUE, TRUE) },
     files |-> { File(NameA, KEarlier, 20), File(NameA, KTwo, 20),
                 File(NameA, KLong, 20) },
     again |-> { File(NameA, KTwo, 20) },
     priors |-> { <<>>, << Scan(NameA, KMain, 10) >> }]

\* Files whose records are not in time order, and a file that begins with
\* a record of the time whose hptime_t value is HPTERROR.
ExtentScenario ==
    [cfgs |-> { Cfg(FALSE, TRUE, FALSE), Cfg(FALSE, FALSE, TRUE) },
     files |-> { File(NameA, KSpread, 20), File(NameA, KSentinel, 20) },
     again |-> { File(NameA, KSentinel, 20) },
     priors |-> { <<>> }]

\* Files with sections whose records differ in sample rate: by more than
\* the tolerance, or with a rate of zero.
RateScenario ==
    [cfgs |-> { Cfg(FALSE, TRUE, FALSE), Cfg(FALSE, FALSE, TRUE),
                [Cfg(FALSE, FALSE, TRUE) EXCEPT !.sqlitebusyto = 0] },
     files |-> { File(NameA, KRates, 20), File(NameA, KZeroRate, 20),
                 File(NameA, KZeroFirst, 20), File(NameA, KZeroOnly, 20) },
     again |-> {},
     priors |-> { <<>> }]

Scenarios ==
    { RescanScenario, VersionScenario, IndexScenario, ExtentScenario,
      RateScenario }

\* main() has read its input file and comes to the synchronisation.
InitSync ==
    /\ pc = "sync"
    /\ dom \in Scenarios
    /\ cfg \in dom.cfgs
    /\ \E file \in dom.files : filelist = << Scanned(file, 51) >>
    /\ flp = 1
    /\ rd = [cmst |-> NoTrace, prevfilepos |-> 0, prevstarttime |-> HPTERROR,
             nextindex |-> HPTERROR, streampos |-> 0]
    /\ msrs = <<>>
    /\ \E ppg \in (IF cfg.pghost THEN dom.priors ELSE {<<>>}),
          psq \in (IF cfg.sqlitefile THEN dom.priors ELSE {<<>>}) :
         db = [b \in Backends |->
                 IF b = "pg" THEN PriorTable(b, ppg, <<>>)
                 ELSE PriorTable(b, psq, <<>>)]
    /\ conn = [b \in Backends |-> ClosedConn]
    /\ sy = IdleSy
    /\ exitcode = NotExited
    /\ run = 1
    /\ seen = NotSeen
    /\ prev = NoPrev
    /\ peer = NoPeer

\* The program is run again, with the same options, on a file of the
\* scenario that has the name of the last one.
Reinvoke ==
    /\ pc = "exit"
    /\ run < MaxRuns
    /\ \E file \in dom.again :
         /\ file.filename = filelist[1].filename
         /\ filelist' = << Scanned(file, 51 + run) >>
    /\ prev' = [run |-> run, file |-> filelist, exitcode |-> exitcode,
                done |-> sy.done, db |-> db]
    /\ pc' = "sync"
    /\ flp' = 1
    /\ conn' = [b \in Backends |-> ClosedConn]
    /\ sy' = IdleSy
    /\ exitcode' = NotExited
    /\ run' = run + 1
    /\ seen' = NotSeen
    /\ UNCHANGED <<dom, peer, rd, msrs, cfg, db>>

NextSync ==
    \/ StartSync \/ Connect \/ Setup \/ FileStart \/ Select \/ Begin
    \/ Delete \/ Insert \/ Commit \/ NextFile \/ Reader \/ Reinvoke

SpecSync == InitSync /\ [][NextSync]_vars

-----------------------------------------------------------------------------
(* One invocation from its first record to its exit: the files of the     *)
(* command line are read, then synchronised                                *)

AllDomain ==
    [skips |-> {0}, reclens |-> {2}, ids |-> {"NA", "NB"}, starts |-> {100},
     durs |-> {1}, rates |-> {20}, raws |-> {"x"}]

\* The file lists of the command lines: one file, or two.
FileLists ==
    LET f(name) == [filename |-> name, filemodtime |-> 7, scantime |-> 8,
                    mstg |-> <<>>]
    IN  { << f(NameA) >>, << f(NameA), f(NameAb) >> }

\* The tables before the invocation: empty, or with the rows of an earlier
\* scan of the first file.
AllTables ==
    { [b \in Backends |-> PriorTable(b, scans, <<>>)] :
        scans \in {<<>>, <<Scan(NameA, KMain, 10)>>} }

InitAll ==
    /\ pc = "read"
    /\ dom = AllDomain
    /\ filelist \in FileLists
    /\ flp = 1
    /\ rd = [cmst |-> NoTrace, prevfilepos |-> 0, prevstarttime |-> HPTERROR,
             nextindex |-> HPTERROR, streampos |-> 0]
    /\ msrs = <<>>
    /\ cfg \in UpdateCfgs
    /\ db \in AllTables
    /\ conn = [b \in Backends |-> ClosedConn]
    /\ sy = IdleSy
    /\ exitcode = NotExited
    /\ run = 1
    /\ seen = NotSeen
    /\ prev = NoPrev
    /\ peer = NoPeer

NextAll ==
    \/ ReadRecord \/ EndOfFile \/ ReadError
    \/ StartSync \/ Connect \/ Setup \/ FileStart \/ Select \/ Begin
    \/ Delete \/ Insert \/ Commit \/ NextFile \/ Reader

SpecAll == InitAll /\ [][NextAll]_vars

-----------------------------------------------------------------------------
(* Two invocations on the same file at the same time, each a process with  *)
(* its own locals and its own connection to the one store.  One of them    *)
(* runs while the other waits, in peer.                                    *)

\* The file both invocations were given, the one store they name, and the
\* table before them: empty, or with the rows of an earlier scan.
TwoScenario ==
    [cfgs |-> { Cfg(FALSE, TRUE, FALSE), Cfg(FALSE, FALSE, TRUE) },
     files |-> { File(NameA, KMain, 20), File(NameA, KTwo, 20) },
     again |-> {},
     priors |-> { <<>>, << Scan(NameA, KMain, 10) >> }]

\* Both have read the file and come to the synchronisation.
InitTwo ==
    /\ pc = "sync"
    /\ dom = TwoScenario
    /\ cfg \in dom.cfgs
    /\ \E file \in dom.files : filelist = << Scanned(file, 51) >>
    /\ flp = 1
    /\ rd = [cmst |-> NoTrace, prevfilepos |-> 0, prevstarttime |-> HPTERROR,
             nextindex |-> HPTERROR, streampos |-> 0]
    /\ msrs = <<>>
    /\ \E prior \in dom.priors :
         db = [b \in Backends |-> PriorTable(b, prior, <<>>)]
    /\ conn = [b \in Backends |-> ClosedConn]
    /\ sy = IdleSy
    /\ exitcode = NotExited
    /\ run = 1
    /\ seen = NotSeen
    /\ prev = NoPrev
    /\ peer = [pc |-> pc, filelist |-> filelist, flp |-> flp, conn |-> conn,
               sy |-> sy, exitcode |-> exitcode]

\* The operating system lets the other process run.  The store lets one
\* transaction on the table run at a time (the write lock of SQLite; a
\* serial execution in Postgres), so the processes change over between
\* transactions only.
Switch ==
    /\ peer.pc \notin {"none", "exit"}
    /\ \A b \in Backends : ~conn[b].intx
    /\ peer' = [pc |-> pc, filelist |-> filelist, flp |-> flp, conn |-> conn,
                sy |-> sy, exitcode |-> exitcode]
    /\ pc' = peer.pc
    /\ filelist' = peer.filelist
    /\ flp' = peer.flp
    /\ conn' = peer.conn
    /\ sy' = peer.sy
    /\ exitcode' = peer.exitcode
    /\ UNCHANGED <<dom, rd, msrs, cfg, db, run, seen, prev>>

NextTwo ==
    \/ StartSync \/ Connect \/ Setup \/ FileStart \/ Select \/ Begin
    \/ Delete \/ Insert \/ Commit \/ NextFile \/ Switch

SpecTwo == InitTwo /\ [][NextTwo]_vars

-----------------------------------------------------------------------------
(* Claims about the transaction of a file                                  *)

\* The transaction of the file deleted rows and has inserted a row.
MidTransaction(at, mst) == at = "insert" /\ sy.matchcount > 0 /\ mst > 1

\* C1: a reader that queries the table at one point in time while a file is
\* reconciled sees the table as it was before the scan, or the table as the
\* committed scan left it, and never some of the old and some of the new
\* rows.
C1_ReaderSeesOldOrNew ==
    seen.be = sy.be =>
        \/ seen.rows = sy.old
        \/ sy.committed /\ seen.rows = db[seen.be]

\* A reader queried the table after the DELETE and an INSERT of a
\* transaction that was later committed with other rows than the old ones.
C1_Witness ==
    /\ seen.be = sy.be
    /\ MidTransaction(seen.at, seen.mst)
    /\ sy.committed
    /\ db[seen.be] # sy.old
    /\ seen.rows = sy.old

\* C2: when a step of the reconciliation of a file fails after BEGIN (the
\* DELETE, an INSERT, the building of a section's strings, the COMMIT), the
\* table holds exactly the rows it held before the scan.
C2_FailureLeavesTable ==
    sy.fail \in {"delete", "insert", "serialize", "commit"} =>
        db[sy.be] = sy.old /\ ~conn[sy.be].intx

\* An INSERT failed after the DELETE and an earlier INSERT of the
\* transaction had been done.
C2_Witness ==
    /\ pc = "exit"
    /\ exitcode = 1
    /\ sy.fail \in {"insert", "serialize"}
    /\ sy.matchcount > 0
    /\ sy.mst > 1

(* Claims about reading                                                    *)

\* The bytes of the file from offset a to offset b.
Bytes(a, b) == a..b

SectionBytes(sd) == Bytes(sd.startoffset, sd.endoffset)

RecordBytes(msr) == Bytes(msr.filepos, msr.filepos + msr.reclen - 1)

\* The history entries of the records that went into section k.
RecordsOfSection(k) == { i \in 1..Len(msrs) : msrs[i].section = k }

RECURSIVE SumRecLen(_)
SumRecLen(is) ==
    IF is = {} THEN 0
    ELSE LET i == CHOOSE j \in is : TRUE
         IN  msrs[i].msr.reclen + SumRecLen(is \ {i})

Sections == filelist[flp].mstg

\* C8: the byte ranges of the sections of a file are pairwise disjoint,
\* follow each other in file order, and together hold exactly the bytes of
\* the records that were decoded: no skipped byte belongs to a section.
C8_BytePartition ==
    pc \in {"read", "sync"} =>
        /\ \A j, k \in 1..Len(Sections) :
             j < k => Sections[j].endoffset < Sections[k].startoffset
        /\ UNION { SectionBytes(Sections[k]) : k \in 1..Len(Sections) }
             = UNION { RecordBytes(msrs[i].msr) : i \in 1..Len(msrs) }

\* C9: the byte count of a section, endoffset - startoffset + 1, is the sum
\* of the lengths of the records that went into it.
C9_ByteCountIsSumOfRecords ==
    pc \in {"read", "sync"} =>
        \A k \in 1..Len(Sections) :
            Sections[k].endoffset - Sections[k].startoffset + 1
                = SumRecLen(RecordsOfSection(k))

\* C11: after every record, the byte offsets of the time index entries of
\* every section are strictly increasing in the order of the list.
C11_IndexOffsetsIncrease ==
    \A k \in 1..Len(Sections) :
        \A i, j \in 1..Len(Sections[k].tindex) :
            i < j => Sections[k].tindex[i].byteoffset
                         < Sections[k].tindex[j].byteoffset

\* A section has three entries in its time index.
C11_Witness ==
    \E k \in 1..Len(Sections) : Len(Sections[k].tindex) = 3

\* C12: for any records, the times of the time index entries of every
\* section are non-decreasing in the order of the list.
C12_IndexTimesNonDecreasing ==
    \A k \in 1..Len(Sections) :
        \A i, j \in 1..Len(Sections[k].tindex) :
            i < j => Sections[k].tindex[i].time <= Sections[k].tindex[j].time

\* Record i and the record read before it went into the same section.
ExtendedBy(i) == i > 1 /\ msrs[i].extended

\* C14 (as stated): time_order of a section is true if and only if no record
\* that extended it started before the record read before it; equal starts
\* are no decrease.
C14_TimeOrderIffNeverDecreased ==
    \A k \in 1..Len(Sections) :
        Sections[k].timeorderrecords = 1 <=>
            \A i \in RecordsOfSection(k) :
                ExtendedBy(i) =>
                    msrs[i].msr.starttime >= msrs[i - 1].msr.starttime

\* C14 (amended): time_order of a section is true if and only if every
\* record that extended it started after the record read before it; an
\* equal start unsets it as an earlier one does.
C14_TimeOrderIffAlwaysIncreased ==
    \A k \in 1..Len(Sections) :
        Sections[k].timeorderrecords = 1 <=>
            \A i \in RecordsOfSection(k) :
                ExtendedBy(i) =>
                    msrs[i].msr.starttime > msrs[i - 1].msr.starttime

\* A section of three records lost its time order to an equal start, and
\* no start of it is before the one read before.
C14_Witness ==
    \E k \in 1..Len(Sections) :
        /\ Sections[k].timeorderrecords = 0
        /\ \E i \in RecordsOfSection(k) : ExtendedBy(i)
        /\ \E i \in RecordsOfSection(k) :
             ExtendedBy(i) /\ msrs[i].msr.starttime = msrs[i - 1].msr.starttime
        /\ \A i \in RecordsOfSection(k) :
             ExtendedBy(i) => msrs[i].msr.starttime >= msrs[i - 1].msr.starttime

\* C10: a record extends the open section exactly when it has the codes of
\* that section and starts at the byte after it, which is the offset of the
\* record before plus the length of the record before.
C10_ExtendIffContiguous ==
    \A i \in 2..Len(msrs) :
        msrs[i].extended <=>
            /\ msrs[i].msr.id = msrs[i - 1].msr.id
            /\ msrs[i].msr.filepos
                 = msrs[i - 1].msr.filepos + msrs[i - 1].msr.reclen

-----------------------------------------------------------------------------
(* Claims about the rows of a file                                         *)

\* The transaction of the current file is committed in the current backend.
Reconciled == pc = "next" /\ sy.committed

CurSections == filelist[flp].mstg

\* The rows that transaction inserted, one per section, in their order.
InsertedRows ==
    SubSeq(db[sy.be], Len(db[sy.be]) - Len(CurSections) + 1, Len(db[sy.be]))

\* The rows of the search's result with the identifiers and digest of row.
MatchingPriors(row) ==
    { p \in 1..Len(sy.selected) :
        row.id = sy.selected[p].id /\ row.hash = sy.selected[p].hash }

LastOf(S) == CHOOSE p \in S : \A q \in S : q <= p

\* C3 (as stated): in update mode every inserted row carries the updated
\* value of every prior row of the search's result that has its identifiers
\* and digest.
C3_UpdatedOfEveryMatchingRow ==
    Reconciled /\ ~cfg.noupdate =>
        \A k \in 1..Len(InsertedRows) :
            \A p \in MatchingPriors(InsertedRows[k]) :
                InsertedRows[k].updated = sy.selected[p].updated

\* C3 (amended): in update mode every inserted row with the identifiers and
\* digest of prior rows of the search's result carries the updated value of
\* the last of them in the result, whatever the file's modification time.
C3_UpdatedOfLastMatchingRow ==
    Reconciled /\ ~cfg.noupdate =>
        \A k \in 1..Len(InsertedRows) :
            MatchingPriors(InsertedRows[k]) # {} =>
                InsertedRows[k].updated =
                    sy.selected[LastOf(MatchingPriors(InsertedRows[k]))].updated

\* A row was inserted with the updated value of a prior row, which is not
\* the modification time of the file.
C3_Witness ==
    /\ Reconciled
    /\ ~cfg.noupdate
    /\ \E k \in 1..Len(InsertedRows) :
         /\ MatchingPriors(InsertedRows[k]) # {}
         /\ InsertedRows[k].updated # filelist[flp].filemodtime

\* C4: in each backend, the row of a section that matches no prior row of
\* that backend has the file's modification time as updated.
C4_UnmatchedGetsFileModTime ==
    Reconciled =>
        \A k \in 1..Len(InsertedRows) :
            MatchingPriors(InsertedRows[k]) = {} =>
                InsertedRows[k].updated = filelist[flp].filemodtime

\* The file of this invocation is the file of the last one, unchanged, and
\* both invocations reconciled it in the current backend, in update mode.
Rescanned ==
    /\ Reconciled
    /\ ~cfg.noupdate
    /\ prev.run > 0
    /\ sy.be \in prev.done
    /\ prev.file[1].content = filelist[1].content
    /\ prev.file[1].filemodtime = filelist[1].filemodtime

NoScanned(rows) == [i \in 1..Len(rows) |-> [rows[i] EXCEPT !.scanned = 0]]

RowsOfFile(table) ==
    SelectSeq(table, LAMBDA row : row.filename = filelist[flp].filename)

RowsOfClause(table) ==
    SelectSeq(table, LAMBDA row : WhereMatches(sy.be, sy.filewhere, row))

\* The number of rows the transaction deleted.
DeletedCount == Len(sy.old) + Len(CurSections) - Len(db[sy.be])

Gone(row) == \A j \in 1..Len(db[sy.be]) : db[sy.be][j] # row

\* The inserted rows are those of the sections of the file.
RowsAreSections ==
    \A k \in 1..Len(CurSections) :
        /\ InsertedRows[k].filename = filelist[flp].filename
        /\ InsertedRows[k].id = CurSections[k].id
        /\ InsertedRows[k].byteoffset = CurSections[k].startoffset
        /\ InsertedRows[k].bytes =
               CurSections[k].endoffset - CurSections[k].startoffset + 1
        /\ InsertedRows[k].hash = CurSections[k].digeststr

Instant(be, col) == IF be = "pg" THEN col ELSE col[1] * DayLen + col[3]

\* C7: the scan of a versioned file <base>#N deletes exactly the prior rows
\* whose filename begins with <base># and whose extents are within a day
\* of the extents of the file; all other rows stay.
C7_VersionedDeletesExactly ==
    Reconciled /\ ~cfg.noupdate /\ sy.baselength > 0 =>
        \A i \in 1..Len(sy.old) :
            Gone(sy.old[i]) <=>
                /\ IsPrefix(SubSeq(filelist[flp].filename, 1, sy.baselength + 1),
                            sy.old[i].filename)
                /\ Instant(sy.be, sy.old[i].starttime) <= sy.filelatest + DayLen
                /\ Instant(sy.be, sy.old[i].endtime) >= sy.fileearliest - DayLen

\* C13: in both backends the timeindex column of an inserted row is NULL
\* exactly when the time of the first entry of the section's time index is
\* not the section's earliest time, and holds the entries of the index and
\* the time order indicator otherwise.
C13_TimeIndexNullIffNotEarliestFirst ==
    Reconciled =>
        \A k \in 1..Len(CurSections) :
            /\ InsertedRows[k].timeindex.null <=>
                   CurSections[k].tindex[1].time # CurSections[k].earliest
            /\ ~InsertedRows[k].timeindex.null =>
                   /\ InsertedRows[k].timeindex.index = CurSections[k].tindex
                   /\ InsertedRows[k].timeindex.latest =
                          CurSections[k].timeorderrecords

\* The second backend of a run stored a row without time index for a
\* section whose second record is the earliest.
C13_Witness ==
    /\ Reconciled
    /\ sy.be = "sqlite"
    /\ cfg.pghost
    /\ \E k \in 1..Len(CurSections) :
         /\ InsertedRows[k].timeindex.null
         /\ CurSections[k].earliest < CurSections[k].tindex[1].time

\* The rows the current run inserted into Postgres, when it came first.
PgInsertedRows ==
    SubSeq(db["pg"], Len(db["pg"]) - Len(CurSections) + 1, Len(db["pg"]))

\* The rows the last run inserted into the current backend.
PrevInsertedRows ==
    SubSeq(prev.db[sy.be], Len(prev.db[sy.be]) - Len(CurSections) + 1,
           Len(prev.db[sy.be]))

C16_NoUpdateOnlyAdds ==
    cfg.noupdate =>
        /\ pc \notin {"select", "delete"}
        /\ sy.selected = <<>> /\ sy.matchcount = 0
        /\ Reconciled =>
             /\ Len(db[sy.be]) = Len(sy.old) + Len(CurSections)
             /\ SubSeq(db[sy.be], 1, Len(sy.old)) = sy.old
             /\ RowsAreSections
             /\ \A k \in 1..Len(CurSections) :
                  InsertedRows[k].updated = filelist[flp].filemodtime

\* With -noup two rows were added to a table that held a row of the file
\* with the digest of one of them.
C16_Witness ==
    /\ cfg.noupdate
    /\ Reconciled
    /\ Len(CurSections) = 2
    /\ \E i \in 1..Len(sy.old), k \in 1..Len(CurSections) :
         /\ sy.old[i].filename = filelist[flp].filename
         /\ sy.old[i].hash = InsertedRows[k].hash

\* C17: with -ns no step of the invocation opens a connection to a store
\* or runs a statement on one, and every store stays as it is.
C17_NoSyncLeavesStores ==
    [][cfg.nosync =>
          /\ db' = db
          /\ \A b \in Backends : ~conn'[b].open /\ ~conn'[b].intx
          /\ pc' \in {"sync", "exit"}]_vars

\* With -ns and a Postgres host named, the second invocation has read its
\* file and ended with status 0 beside a table that holds rows.
C17_Witness ==
    /\ cfg.nosync
    /\ cfg.pghost
    /\ pc = "exit"
    /\ exitcode = 0
    /\ run = 2
    /\ filelist[1].mstg # <<>>
    /\ db["pg"] # <<>>

\* Bytes that are not part of a record lie before record i of the file.
SkippedBefore(i) ==
    msrs[i].msr.filepos
        > (IF i = 1 THEN 0
                    ELSE msrs[i - 1].msr.filepos + msrs[i - 1].msr.reclen)

\* C18: no option sets a skip-non-data flag, so bytes of the input not
\* recognised as a record end the invocation with a non-zero status: no
\* record after such bytes is taken into the sections of the file.
C18_UnrecognizedBytesAreFatal ==
    (\E i \in 1..Len(msrs) : SkippedBefore(i))
        => \/ pc = "exit" /\ exitcode = 1
           \/ pc = "crash"

\* No connection was opened and no statement has run on a store.
StoresUntouched ==
    /\ db \in AllTables
    /\ conn = [b \in Backends |-> ClosedConn]
    /\ sy = IdleSy
    /\ seen = NotSeen

\* C19: while files are read no store is connected to and no statement
\* runs; the reading ends either with the last file of the list read to its
\* end, and only then the synchronisation starts, or with a read error, and
\* then the invocation exits with status 1 with the stores untouched and no
\* step follows the exit.
C19_StoresOnlyAfterAllFilesRead ==
    /\ [](pc = "read" => StoresUntouched)
    /\ [][pc = "read" => db' = db /\ conn' = conn]_vars
    /\ [][pc = "read" /\ pc' # "read" =>
            \/ pc' = "sync" /\ flp = Len(filelist) /\ exitcode' = NotExited
            \/ pc' = "exit" /\ exitcode' = 1 /\ StoresUntouched']_vars
    /\ [][pc # "exit"]_vars

\* The first of two files was read to its end and has sections, the second
\* ended in a read error after a record: the invocation exited with status
\* 1 although a store is named.
C19_Witness ==
    /\ pc = "exit"
    /\ exitcode = 1
    /\ Len(filelist) = 2
    /\ flp = 2
    /\ filelist[1].mstg # <<>>
    /\ filelist[2].mstg # <<>>
    /\ cfg.pghost
    /\ StoresUntouched

\* The stores the invocation synchronises its files with.
Configured ==
    IF cfg.nosync THEN {}
    ELSE { b \in Backends : IF b = "pg" THEN cfg.pghost ELSE cfg.sqlitefile }

\* C20: the process exits with status 0 only if the transaction of the
\* file committed on every configured store; after a failure of connect,
\* BEGIN, DELETE, INSERT or COMMIT it exits with status 1.
C20_ExitZeroOnlyIfCommitted ==
    pc = "exit" /\ exitcode = 0 => Configured \subseteq sy.done

\* C21: for each file the search for the rows to preserve, the DELETE and
\* every INSERT are statements of one transaction that is open when they
\* are issued, and COMMIT is issued after the insert of the last section.
C21_QueryDeleteInsertInTransaction ==
    [][/\ pc \in {"select", "delete", "insert"} => conn[sy.be].intx
       /\ pc = "commit" =>
            conn[sy.be].intx /\ sy.mst = Len(filelist[flp].mstg) + 1]_vars

\* Both invocations have exited with status 0 and the transaction of each
\* has committed.
BothCommitted ==
    /\ pc = "exit" /\ exitcode = 0 /\ sy.be \in sy.done
    /\ peer.pc = "exit" /\ peer.exitcode = 0 /\ peer.sy.be \in peer.sy.done

\* C22: when two invocations that reconcile the same file with one store
\* in update mode have both committed, the table holds one row per section
\* of the file, whatever the order of their statements was.
C22_OneRowPerSectionAfterBoth ==
    BothCommitted => Len(db[sy.be]) = Len(filelist[1].mstg)

\* C23: the first record read from a file opens the first section of the
\* file, whatever its byte offset is, and a record extends a section only
\* when an earlier record of the file opened one.
C23_FirstRecordOpensSection ==
    /\ Len(msrs) >= 1 =>
         /\ pc # "crash"
         /\ Len(Sections) >= 1
         /\ msrs[1].section = 1
         /\ Sections[1].startoffset = msrs[1].msr.filepos
    /\ \A i \in 1..Len(msrs) :
         msrs[i].extended => \E j \in 1..(i - 1) : msrs[j].section = msrs[i].section

\* The records of the file that lie in the bytes of section sd.
RecordsIn(file, sd) ==
    { i \in 1..Len(file.content) :
        /\ sd.startoffset <= file.content[i].filepos
        /\ file.content[i].filepos <= sd.endoffset }

\* t is the lowest, or the highest, of the times ts.
IsMin(t, ts) == t \in ts /\ \A u \in ts : t <= u
IsMax(t, ts) == t \in ts /\ \A u \in ts : t >= u

\* The search window of the file has been computed.
PastFileStart == pc \in {"select", "begin", "delete", "insert", "commit", "next"}

\* C24: earliest is the lowest start time and latest the highest end time
\* of the records of a section, and the earliest and latest of the file,
\* from which the search window is made, are the lowest earliest and the
\* highest latest of its sections.
C24_ExtentsAreMinMax ==
    LET file == filelist[1]
        mstg == file.mstg
    IN  /\ \A k \in 1..Len(mstg) :
             /\ IsMin(mstg[k].earliest,
                      { file.content[i].starttime : i \in RecordsIn(file, mstg[k]) })
             /\ IsMax(mstg[k].latest,
                      { file.content[i].endtime : i \in RecordsIn(file, mstg[k]) })
        /\ PastFileStart =>
             /\ IsMin(sy.fileearliest, { mstg[k].earliest : k \in 1..Len(mstg) })
             /\ IsMax(sy.filelatest, { mstg[k].latest : k \in 1..Len(mstg) })

\* The first of the records read into section k.
FirstRecordOf(k) ==
    CHOOSE i \in RecordsOfSection(k) : \A j \in RecordsOfSection(k) : i <= j

\* C25: the time of the first entry of the time index of a section is the
\* section's earliest time exactly when no record of the section starts
\* before the first record of the section does.
C25_FirstIndexIsEarliestIffFirstIsEarliest ==
    pc # "crash" =>
        \A k \in 1..Len(Sections) :
            Sections[k].tindex[1].time = Sections[k].earliest
                <=> \A i \in RecordsOfSection(k) :
                        msrs[i].msr.starttime
                            >= msrs[FirstRecordOf(k)].msr.starttime

\* A section of three records whose last record starts before the first:
\* the first entry of its index is not its earliest time.
C25_Witness ==
    \E k \in 1..Len(Sections) :
        /\ Cardinality(RecordsOfSection(k)) = 3
        /\ Sections[k].tindex[1].time > Sections[k].earliest
        /\ msrs[3].msr.starttime = Sections[k].earliest

\* The record read last, and whether an entry of the time index of its
\* section was added for it.
LastRecord == msrs[Len(msrs)]
LastRecordIndexed ==
    /\ msrs # <<>>
    /\ pc # "crash"
    /\ LET tindex == Sections[LastRecord.section].tindex
       IN  tindex[Len(tindex)].byteoffset = LastRecord.msr.filepos

\* nextindex lies a whole number of index intervals, n, after time t.
WholeIntervalsAfter(nextindex, t, n) == nextindex = t + n * IndexInterval

\* C26: after a record for which an entry of the time index was added,
\* nextindex is greater than the end time of the record.
C26_NextIndexAfterRecordEnd ==
    LastRecordIndexed => rd.nextindex > LastRecord.msr.endtime

\* C26 as the code has it: nextindex is not lower than the end time of the
\* record, and lies whole index intervals after the start of the first
\* record of the section.
C26_NextIndexNotBeforeRecordEnd ==
    LastRecordIndexed =>
        /\ rd.nextindex >= LastRecord.msr.endtime
        /\ \E n \in 1..10 :
             WholeIntervalsAfter(rd.nextindex,
                 msrs[FirstRecordOf(LastRecord.section)].msr.starttime, n)

\* A record that extends a section got an entry, and nextindex was moved on
\* to exactly its end time.
C26_Witness ==
    /\ LastRecordIndexed
    /\ LastRecord.extended
    /\ rd.nextindex = LastRecord.msr.endtime

\* The records of section k for which an entry of its time index was added.
IndexedRecords(k) ==
    { i \in RecordsOfSection(k) :
        \E e \in 1..Len(Sections[k].tindex) :
            Sections[k].tindex[e].byteoffset = msrs[i].msr.filepos }

\* C27: while a section is the current one, nextindex is the start of its
\* first record plus a positive whole number of index intervals, is not
\* lower than the section's latest time and never decreases; the records
\* for which entries of the index were added have increasing end times.
C27_NextIndexBoundsSection ==
    /\ [](rd.cmst # NoTrace =>
            /\ \E n \in 1..10 :
                 WholeIntervalsAfter(rd.nextindex,
                     msrs[FirstRecordOf(rd.cmst)].msr.starttime, n)
            /\ rd.nextindex >= Sections[rd.cmst].latest
            /\ \A i, j \in IndexedRecords(rd.cmst) :
                 i < j => msrs[i].msr.endtime < msrs[j].msr.endtime)
    /\ [][rd.cmst # NoTrace /\ rd'.cmst = rd.cmst =>
            rd'.nextindex >= rd.nextindex]_vars

\* A section of three records: entries were added for the first and the
\* third, the second ended before nextindex and starts before the first.
C27_Witness ==
    /\ rd.cmst # NoTrace
    /\ Cardinality(RecordsOfSection(rd.cmst)) = 3
    /\ Cardinality(IndexedRecords(rd.cmst)) = 2
    /\ msrs[2].msr.starttime < msrs[1].msr.starttime
    /\ rd.nextindex > msrs[1].msr.starttime + IndexInterval

\* The rate of a record departs from the nominal rate of its section:
\* |1 - nominal / samprate| is 1e-4 or more.
RateDeparts(samprate, nominal) ==
    IF samprate = 0 THEN nominal # 0
    ELSE (IF samprate > nominal THEN samprate - nominal
          ELSE nominal - samprate) * RateTolerance >= samprate

\* C28: the timerates column of an inserted row is not NULL exactly when a
\* record of the section has a sample rate that departs from the rate of
\* the first record of the section.
C28_TimeRatesIffRecordDeparts ==
    Reconciled =>
        \A k \in 1..Len(CurSections) :
            ~InsertedRows[k].timerates.null <=>
                \E i \in RecordsIn(filelist[flp], CurSections[k]) :
                    RateDeparts(filelist[flp].content[i].samprate,
                                CurSections[k].samprate)

\* C28 as the code has it: the timerates column of an inserted row is not
\* NULL exactly when a span of the section (records of rate zero are in no
\* span) has a rate that is not within the tolerance of the rate of the
\* first record of the section.
C28_TimeRatesIffSpanMismatch ==
    Reconciled =>
        \A k \in 1..Len(CurSections) :
            ~InsertedRows[k].timerates.null <=>
                \E i \in 1..Len(CurSections[k].spans) :
                    ~IsRateTolerable(CurSections[k].spans[i].samprate,
                                     CurSections[k].samprate)

\* A file of two sections was stored: the first has two spans of rates
\* that differ and its row has timerates, the second has one span and its
\* row has none.
C28_Witness ==
    /\ Reconciled
    /\ Len(CurSections) = 2
    /\ Len(CurSections[1].spans) = 2
    /\ ~InsertedRows[1].timerates.null
    /\ Len(CurSections[2].spans) = 1
    /\ InsertedRows[2].timerates.null

\* The columns of row that are not NULL were serialized from section sd.
OwnValues(row, sd) ==
    /\ ~row.timeindex.null => row.timeindex.index = sd.tindex
    /\ ~row.timespans.null =>
           /\ Len(row.timespans.spans) = Len(sd.spans)
           /\ \A i \in 1..Len(sd.spans) :
                  row.timespans.spans[i] =
                      <<sd.spans[i].starttime, sd.spans[i].endtime>>
    /\ ~row.timerates.null =>
           /\ Len(row.timerates.rates) = Len(sd.spans)
           /\ \E i \in 1..Len(sd.spans) :
                  ~IsRateTolerable(sd.spans[i].samprate, sd.samprate)

\* C29: an inserted row whose timerates is not NULL has timespans, with as
\* many rates as spans, the i-th rate being the rate of the i-th span of the
\* section as it is written; and no column of a row holds what was
\* serialized for the section before it.
C29_RatesMatchSpansAndNoCarryOver ==
    Reconciled =>
        \A k \in 1..Len(CurSections) :
            /\ ~InsertedRows[k].timerates.null =>
                   /\ ~InsertedRows[k].timespans.null
                   /\ Len(InsertedRows[k].timerates.rates) =
                          Len(InsertedRows[k].timespans.spans)
                   /\ \A i \in 1..Len(InsertedRows[k].timerates.rates) :
                          InsertedRows[k].timerates.rates[i] =
                              RateStr(CurSections[k].spans[i].samprate)
            /\ OwnValues(InsertedRows[k], CurSections[k])

\* A file of two sections was stored: the row of the first has two spans
\* and their two rates, which differ, and the row of the second has one span
\* and no rates.
C29_Witness ==
    /\ Reconciled
    /\ Len(CurSections) = 2
    /\ ~InsertedRows[1].timerates.null
    /\ Len(InsertedRows[1].timerates.rates) = 2
    /\ InsertedRows[1].timerates.rates[1] # InsertedRows[1].timerates.rates[2]
    /\ Len(InsertedRows[1].timespans.spans) = 2
    /\ Len(InsertedRows[2].timespans.spans) = 1
    /\ InsertedRows[2].timerates.null

\* C30: a time index that is not NULL lists one pair of time and offset for
\* each entry of the section's index, in the order of the list, and then a
\* 'latest' pair that is 1 if the records of the section were found in time
\* order and 0 otherwise.
C30_TimeIndexListsEntriesThenLatest ==
    Reconciled =>
        \A k \in 1..Len(CurSections) :
            ~InsertedRows[k].timeindex.null =>
                /\ Len(InsertedRows[k].timeindex.index) =
                       Len(CurSections[k].tindex)
                /\ \A i \in 1..Len(CurSections[k].tindex) :
                       /\ InsertedRows[k].timeindex.index[i].time =
                              CurSections[k].tindex[i].time
                       /\ InsertedRows[k].timeindex.index[i].byteoffset =
                              CurSections[k].tindex[i].byteoffset
                /\ InsertedRows[k].timeindex.latest =
                       (IF CurSections[k].timeorderrecords # 0 THEN 1 ELSE 0)

\* A section of three records, the last one out of time order, was stored
\* with a time index of two entries and a 'latest' pair of 0.
C30_Witness ==
    /\ Reconciled
    /\ Len(CurSections) = 1
    /\ ~InsertedRows[1].timeindex.null
    /\ Len(InsertedRows[1].timeindex.index) = 2
    /\ InsertedRows[1].timeindex.index[1].byteoffset <
           InsertedRows[1].timeindex.index[2].byteoffset
    /\ CurSections[1].timeorderrecords = 0
    /\ InsertedRows[1].timeindex.latest = 0

\* The records of the section that have a sample rate of zero.
ZeroRateIn(file, sd) ==
    { i \in RecordsIn(file, sd) : file.content[i].samprate = 0 }

\* Record i of the file comes after every other record of R and ends more
\* than an hour after the first of them starts and after each of them ends.
EndsAnHourOn(file, R, i) ==
    /\ R \ {i} # {}
    /\ \A j \in R \ {i} :
           /\ j < i
           /\ file.content[i].endtime >
                  file.content[j].endtime + IndexInterval
           /\ file.content[i].endtime >
                  file.content[j].starttime + IndexInterval

\* C31: a record of sample rate zero is in no span of its section, and
\* the section's byte range, extents, time index and digest cover it like
\* any record; a section of zero-rate records only has no span and its row
\* has timespans NULL.
C31_ZeroRateOutsideSpansOnly ==
    Reconciled =>
        \A k \in 1..Len(CurSections) :
            LET sd == CurSections[k]
                file == filelist[flp]
                R == RecordsIn(file, sd)
            IN  /\ \A s \in 1..Len(sd.spans) :
                       /\ sd.spans[s].samprate # 0
                       /\ \E i \in R \ ZeroRateIn(file, sd) :
                              file.content[i].starttime =
                                  sd.spans[s].starttime
                       /\ \E i \in R \ ZeroRateIn(file, sd) :
                              file.content[i].endtime = sd.spans[s].endtime
                /\ Len(sd.spans) <= Cardinality(R \ ZeroRateIn(file, sd))
                /\ \A i \in ZeroRateIn(file, sd) :
                       /\ sd.endoffset >=
                              file.content[i].filepos +
                              file.content[i].reclen - 1
                       /\ sd.earliest <= file.content[i].starttime
                       /\ sd.latest >= file.content[i].endtime
                       /\ \E j \in 1..Len(sd.digeststr) :
                              sd.digeststr[j] = Record(file.content[i])
                       /\ file.content[i].filepos = sd.startoffset
                          \/ EndsAnHourOn(file, R, i) =>
                              \E j \in 1..Len(sd.tindex) :
                                  /\ sd.tindex[j].time =
                                         file.content[i].starttime
                                  /\ sd.tindex[j].byteoffset =
                                         file.content[i].filepos
                /\ R = ZeroRateIn(file, sd) =>
                       /\ sd.spans = <<>>
                       /\ InsertedRows[k].timespans.null

\* A section of two records of sample rate zero was stored: it has no span
\* and its row no timespans, while its bytes, extents, time index and
\* digest take in the second record.
C31_Witness ==
    /\ Reconciled
    /\ Len(CurSections) = 1
    /\ Cardinality(ZeroRateIn(filelist[flp], CurSections[1])) = 2
    /\ CurSections[1].spans = <<>>
    /\ InsertedRows[1].timespans.null
    /\ CurSections[1].endoffset = 3
    /\ CurSections[1].latest = 103
    /\ Len(CurSections[1].tindex) = 2
    /\ Len(CurSections[1].digeststr) = 2

\* The row as the Postgres table would hold it.
AsPostgresRow(row) ==
    [row EXCEPT !.starttime = Instant("sqlite", row.starttime),
                !.endtime = Instant("sqlite", row.endtime)]

\* The row has the file name, or the base name, of the clause.
NameMatches(w, row) ==
    IF w.like THEN IsPrefix(w.name, row.filename) ELSE row.filename = w.name

\* C32: in SQLite the clause of a file selects a row of the file's name
\* exactly when the row starts no later than a day after the file's latest
\* time and ends no earlier than a day before its earliest time, which are
\* the rows the clause of Postgres selects.
C32_SqliteClauseIsWindowOfInstants ==
    PastFileStart /\ sy.be = "sqlite" /\ ~cfg.noupdate =>
        \A i \in 1..Len(sy.old) :
            /\ WhereMatches("sqlite", sy.filewhere, sy.old[i]) <=>
                   /\ NameMatches(sy.filewhere, sy.old[i])
                   /\ Instant("sqlite", sy.old[i].starttime) <=
                          sy.filelatest + DayLen
                   /\ Instant("sqlite", sy.old[i].endtime) >=
                          sy.fileearliest - DayLen
            /\ WhereMatches("sqlite", sy.filewhere, sy.old[i]) <=>
                   WhereMatches("pg",
                                FileWhere("pg", filelist[flp].filename,
                                          sy.baselength, sy.fileearliest,
                                          sy.filelatest),
                                AsPostgresRow(sy.old[i]))

\* The table as the connection of the current backend sees it after the
\* step.
ViewAfter == IF conn'[sy.be].intx THEN conn'[sy.be].work ELSE db'[sy.be]

\* The step inserted a row for section sy.mst, after the rows there were.
InsertsRowOfSection ==
    LET sd == filelist[flp].mstg[sy.mst]
        row == ViewAfter[Len(ViewAfter)]
    IN  /\ Len(ViewAfter) = Len(View(sy.be)) + 1
        /\ SubSeq(ViewAfter, 1, Len(View(sy.be))) = View(sy.be)
        /\ row.id = sd.id
        /\ row.filename = filelist[flp].filename
        /\ row.byteoffset = sd.startoffset
        /\ row.bytes = sd.endoffset - sd.startoffset + 1
        /\ row.hash = sd.digeststr

\* C33: a reconciliation that succeeds inserts one row for each section of
\* the file, in the order of the sections in the file, with the file's
\* name, the section's start offset, its count of bytes end - start + 1 and
\* its digest.
C33_OneRowPerSectionInFileOrder ==
    /\ [][pc = "insert" /\ pc' \in {"insert", "commit"} /\ sy' # sy =>
              InsertsRowOfSection /\ sy'.mst = sy.mst + 1]_vars
    /\ [][pc = "insert" /\ sy' = sy => db' = db /\ conn' = conn]_vars
    /\ [][pc' = "insert" /\ pc # "insert" => sy'.mst = 1]_vars
    /\ [][pc' = "commit" /\ pc # "commit" =>
              pc = "insert" /\ sy.mst = Len(CurSections)]_vars
    /\ [](Reconciled =>
              /\ RowsAreSections
              /\ \A k \in 1..(Len(CurSections) - 1) :
                     CurSections[k].startoffset <
                         CurSections[k + 1].startoffset)

\* A file of three records was stored as two rows: four bytes from offset
\* 0, then two bytes from offset 4.
C33_Witness ==
    /\ Reconciled
    /\ Len(CurSections) = 2
    /\ InsertedRows[1].byteoffset = 0
    /\ InsertedRows[1].bytes = 4
    /\ InsertedRows[2].byteoffset = 4
    /\ InsertedRows[2].bytes = 2
    /\ InsertedRows[1].hash # InsertedRows[2].hash

\* C34: in update mode a section that several rows of the search's result
\* match ends with the updated value of the last of them in the order of
\* the result, and every section of the file with the same identifiers and
\* digest ends with that value too.
C34_LastMatchWinsForAllTwins ==
    Reconciled /\ ~cfg.noupdate =>
        \A k \in 1..Len(CurSections) :
            MatchingPriors(InsertedRows[k]) # {} =>
                \A j \in 1..Len(CurSections) :
                    /\ CurSections[j].id = CurSections[k].id
                    /\ CurSections[j].digeststr = CurSections[k].digeststr
                    => /\ CurSections[j].updated =
                              UpdatedOfRow(sy.be,
                                  sy.selected[
                                      LastOf(MatchingPriors(InsertedRows[k]))])
                       /\ InsertedRows[j].updated = CurSections[j].updated

\* Two sections with the same identifiers and digest were stored after a
\* search that returned two rows matching them, with different updated
\* values: both rows of the file have the value of the second.
C34_Witness ==
    /\ Reconciled
    /\ ~cfg.noupdate
    /\ Len(CurSections) = 2
    /\ CurSections[1].id = CurSections[2].id
    /\ CurSections[1].digeststr = CurSections[2].digeststr
    /\ Len(sy.selected) = 2
    /\ MatchingPriors(InsertedRows[1]) = {1, 2}
    /\ sy.selected[1].updated # sy.selected[2].updated
    /\ InsertedRows[1].updated = sy.selected[2].updated
    /\ InsertedRows[2].updated = sy.selected[2].updated

\* A statement has been issued for the file of flp in the current backend.
StatementIssued == pc \in {"begin", "delete", "insert", "commit"}

\* The steps of the reconciliation of a file that can fail.
FileFailures ==
    {"version", "extents", "select", "begin", "delete", "insert",
     "serialize", "commit"}

\* C35: in a backend the files are reconciled one after the other in the
\* order of the list, each in a transaction of its own; when the
\* reconciliation of a file fails, the table holds what the transactions of
\* the files before it left, which is what it held when the file was begun,
\* and no statement is issued for a file after it.
C35_FailureStopsTheBackend ==
    /\ [][pc \notin {"read", "exit"} /\ flp' # flp =>
              \/ pc = "next" /\ flp' = flp + 1
              \/ pc = "setup" /\ flp' = 1]_vars
    /\ [](pc \in {"file", "select", "begin"} => ~conn[sy.be].intx)
    /\ [](pc \in {"select", "begin", "delete", "insert", "commit"} =>
              db[sy.be] = sy.old)
    /\ [][sy'.fail # sy.fail /\ sy'.fail \in FileFailures =>
              db' = db /\ ~conn'[sy.be].intx]_vars
    /\ [](sy.fail \in FileFailures => ~StatementIssued)

\* No record of the file of flp was decoded: it has no section.
NoSections == filelist[flp].mstg = <<>>

\* C36: the reconciliation of a file without a section fails for lack of
\* time extents before a statement is issued for the file: the table is
\* left as it is and the process exits with status 1.
C36_FileWithoutSectionsFails ==
    /\ [](pc \in {"select", "begin", "delete", "insert", "commit", "next"} =>
              ~NoSections)
    /\ [][pc = "file" /\ NoSections =>
              /\ pc' = "exit"
              /\ exitcode' = 1
              /\ sy'.fail = "extents"
              /\ db' = db
              /\ flp' = flp]_vars

\* The table held a row of the file, the file was found without a record,
\* and the process has exited with status 1 with the row still there.
C36_Witness ==
    /\ pc = "exit"
    /\ exitcode = 1
    /\ sy.fail = "extents"
    /\ NoSections
    /\ \E i \in 1..Len(db[sy.be]) :
           db[sy.be][i].filename = filelist[flp].filename

\* A digit follows the last '#' of the name.
NumberAfterLastHash(filename) ==
    \E i \in 1..(Len(filename) - 1) :
        /\ filename[i] = "#"
        /\ \A j \in (i + 1)..Len(filename) : filename[j] # "#"
        /\ filename[i + 1] \in Digits

HasHash(filename) == \E i \in 1..Len(filename) : filename[i] = "#"

\* C37: the search treats a file as a version (matches by the base name)
\* only if its name has a number after its last '#'; for a name with a '#'
\* that no number follows the reconciliation fails before a statement is
\* issued for the file; for a name without '#' the search matches rows of
\* exactly that name.
C37_VersionOnlyWithNumber ==
    /\ [](PastFileStart /\ sy.filewhere.like =>
              NumberAfterLastHash(filelist[flp].filename))
    /\ [](PastFileStart /\ HasHash(filelist[flp].filename) =>
              NumberAfterLastHash(filelist[flp].filename))
    /\ [][/\ pc = "file"
          /\ HasHash(filelist[flp].filename)
          /\ ~NumberAfterLastHash(filelist[flp].filename)
          => /\ pc' = "exit"
             /\ exitcode' = 1
             /\ sy'.fail = "version"
             /\ db' = db]_vars
    /\ [](/\ PastFileStart
          /\ ~cfg.noupdate
          /\ ~HasHash(filelist[flp].filename)
          => /\ ~sy.filewhere.like
             /\ sy.baselength = 0
             /\ pc # "select" =>
                    \A i \in 1..Len(sy.selected) :
                        sy.selected[i].filename = filelist[flp].filename)

\* File a#x was to be synchronised with a table that holds rows of a#1: the
\* process has exited with status 1 and the rows are there.
C37_Witness ==
    /\ pc = "exit"
    /\ exitcode = 1
    /\ sy.fail = "version"
    /\ filelist[flp].filename = <<"a", "#", "x">>
    /\ db[sy.be] # <<>>
    /\ db[sy.be] = PriorTable(sy.be, << Scan(NameA1, KMain, 10) >>, <<>>)

\* C38: when the synchronisation with a backend has ended, after the last
\* file or after a failure of the session's setup or of a file's
\* reconciliation, the connection it opened is closed: none is open when
\* the routine has returned or the process exits.
C38_ConnectionClosedOnEveryPath ==
    /\ pc = "exit" => \A b \in Backends : ~conn[b].open
    /\ pc = "connect" => \A b \in Backends : ~conn[b].open

\* What a session of the backend is to have before its first file.
SessionNeeds(be, c) ==
    IF be = "pg" THEN {"timezone"}
    ELSE {"case_sensitive_like", "create_table", "nslcse_idx",
          "filename_idx", "updated_idx"}
         \cup (IF c.sqlitebusyto # 0 THEN {"busy_timeout"} ELSE {})

AllSetupSteps ==
    {"timezone", "busy_timeout", "case_sensitive_like", "create_table",
     "nslcse_idx", "filename_idx", "updated_idx"}

\* C39: the session is set up before the first file is taken: in SQLite the
\* busy timeout (when one is configured), the case-sensitive LIKE, the
\* table and its three indexes, in Postgres the time zone UTC; and after
\* the failure of a setup step no file is reconciled in that backend.
C39_SetupPrecedesFiles ==
    /\ [](pc \in {"file", "select", "begin", "delete", "insert", "commit",
                  "next"} =>
              SessionNeeds(sy.be, cfg) \subseteq sy.session)
    /\ [][sy'.fail # sy.fail /\ sy'.fail \in AllSetupSteps =>
              /\ pc = "setup"
              /\ pc' = "exit"
              /\ exitcode' = 1
              /\ db' = db]_vars
    /\ [](sy.fail \in AllSetupSteps =>
              /\ pc = "exit"
              /\ sy.be \notin sy.done
              /\ ~sy.committed)

\* The first file of a SQLite session is being reconciled, inside its
\* transaction, after the six steps of the setup.
C39_Witness ==
    /\ pc = "insert"
    /\ sy.be = "sqlite"
    /\ conn["sqlite"].intx
    /\ flp = 1
    /\ sy.setup = 6
    /\ sy.session = SessionNeeds("sqlite", cfg)
    /\ "busy_timeout" \in sy.session

=========================================================================
